---- MODULE Spec2Model ----
(***************************************************************************)
(* The homework-status bot of src/homework.py: main() checks the three     *)
(* credentials and then loops forever over fetch (get_api_answer),         *)
(* validate (check_response), format and notify (parse_status,             *)
(* send_message), advance the cursor, sleep; any exception of an iteration *)
(* is reported to the chat and followed by the same sleep.                 *)
(*                                                                         *)
(* Python values are tagged records [t, v]; a text is the sequence of the  *)
(* fragments an f-string concatenates.  Message literals are rendered in   *)
(* English, fragment for fragment.                                         *)
(***************************************************************************)
EXTENDS Integers, Sequences, FiniteSets, TLC

VARIABLES
    env,                \* PRACTICUM_TOKEN, TELEGRAM_TOKEN, TELEGRAM_CHAT_ID (lines 22-24)
    pc,                 \* position of main(): the call that runs next
    clock,              \* int(time.time()) of the host
    current_timestamp,  \* the cursor, a local of main() (line 121)
    response,           \* what requests.get produced in this iteration
    homeworks_data,     \* local of main(), line 125
    homeworks,          \* local of main(), line 127
    i,                  \* position of the for loop of line 129
    error,              \* the exception caught at line 135 in this iteration
    requests,           \* HTTP requests issued in this iteration
    decoded,            \* whether .json() was called in this iteration
    sent,               \* bot.send_message calls made in this iteration
    slept,              \* time.sleep calls made in this iteration
    trace               \* the calls main() made in this iteration, in order

vars == <<env, pc, clock, current_timestamp, response, homeworks_data,
          homeworks, i, error, requests, decoded, sent, slept, trace>>

---------------------------------------------------------------------------
\* Bounds of the model.
StartTime == 1700000000
MaxPolls == 1
MaxElapsed == 1
MaxHomeworks == 2

---------------------------------------------------------------------------
\* Python values.
None == [t |-> "none", v |-> <<>>]
PyStr(s) == [t |-> "str", v |-> s]
PyInt(n) == [t |-> "int", v |-> n]
PyList(s) == [t |-> "list", v |-> s]
PyDict(f) == [t |-> "dict", v |-> f]

\* bool(x)
Truthy(x) ==
    CASE x.t = "none" -> FALSE
      [] x.t = "str"  -> x.v # ""
      [] x.t = "int"  -> x.v # 0
      [] x.t = "list" -> Len(x.v) > 0
      [] x.t = "dict" -> DOMAIN x.v # {}

\* isinstance(x, dict), isinstance(x, list)
IsDict(x) == x.t = "dict"
IsList(x) == x.t = "list"

\* d.get(key)
Get(d, key) == IF key \in DOMAIN d.v THEN d.v[key] ELSE None

\* f'{x}' of a name or a status
Format(x) ==
    CASE x.t = "none" -> "None"
      [] x.t = "str"  -> x.v
      [] OTHER        -> "<object>"

---------------------------------------------------------------------------
\* Constants of the module.
RETRY_TIME == 600
HTTP_OK == 200

\* The host clock is followed up to MaxTime and stands still from there on.
MaxTime == StartTime + MaxPolls * RETRY_TIME + MaxElapsed

HOMEWORK_STATUSES ==
    [approved  |-> "Work checked: the reviewer liked everything. Hooray!",
     reviewing |-> "Work taken for review by the reviewer.",
     rejected  |-> "Work checked: the reviewer has remarks."]

---------------------------------------------------------------------------
\* Exceptions: a class name and the text given to the constructor.
Exc(type, text) == [type |-> type, text |-> text]
NoError == Exc("none", <<>>)

\* The classes of exceptions.py, all derived from Exception.
ExceptionsModule == {"EndpointUnavailableError"}

\* The builtin classes raised here, all derived from Exception.
BuiltinExceptions ==
    {"Exception", "TypeError", "KeyError", "ValueError", "AttributeError"}

IsException(e) == e.type \in BuiltinExceptions \cup ExceptionsModule

\* str(error): KeyError shows the repr of its argument, the others the text.
Str(e) ==
    IF e.type = "KeyError" THEN <<"'">> \o e.text \o <<"'">> ELSE e.text

---------------------------------------------------------------------------
\* What the environment can hold for a credential: unset, empty, set.
Credentials == {None, PyStr(""), PyStr("secret")}

\* Homework records the API can return.
Homework(name, status) == PyDict([homework_name |-> name, status |-> status])

HomeworkRecords ==
    { Homework(PyStr("hw1"), PyStr("approved")),
      Homework(PyStr("hw2"), PyStr("reviewing")),
      Homework(PyStr("hw1"), PyStr("rejected")),
      Homework(PyStr("hw2"), PyStr("unknown")),
      Homework(PyStr(""), PyStr("approved")),
      PyDict([status |-> PyStr("approved")]),
      PyDict([homework_name |-> PyStr("hw1")]),
      PyStr("not-a-record") }

HomeworkLists ==
    UNION { [1..n -> HomeworkRecords] : n \in 0..MaxHomeworks }

\* Decoded bodies the API can return.
Payloads ==
    { PyList(<<>>), None, PyStr("not-a-dict"),
      PyDict(<<>>),
      PyDict([current_date |-> PyInt(StartTime)]),
      PyDict([homeworks |-> PyStr("not-a-list")]),
      PyDict([homeworks |-> None, current_date |-> PyInt(StartTime)]),
      PyDict([homeworks |-> PyDict(<<>>)]),
      PyDict([homeworks |-> PyList(<<>>), current_date |-> PyInt(StartTime)]) }
    \cup { PyDict([homeworks |-> PyList(l)]) : l \in HomeworkLists }

\* What requests.get can produce: an exception, or a Response with a status
\* code and a body that decodes as JSON (valid) or does not.
NoResponse == [kind |-> "none", status_code |-> 0, valid |-> FALSE, json |-> None]
ErrorStatuses == {404, 503}

Responses ==
    { [kind |-> "raised", status_code |-> 0, valid |-> FALSE, json |-> None] }
    \cup { [kind |-> "response", status_code |-> s, valid |-> TRUE,
            json |-> PyDict([homeworks |-> PyList(<<>>)])] : s \in ErrorStatuses }
    \cup { [kind |-> "response", status_code |-> HTTP_OK, valid |-> FALSE,
            json |-> None] }
    \cup { [kind |-> "response", status_code |-> HTTP_OK, valid |-> TRUE,
            json |-> p] : p \in Payloads }

---------------------------------------------------------------------------
\* send_message that lets the exception of the bot call through.
send_message_propagates(chat_id, message, delivered, log) ==
    [raised |-> ~delivered,
     sent   |-> Append(log, [chat_id |-> chat_id, text |-> message,
                             delivered |-> delivered])]

\* send_message (lines 38-47): one bot.send_message call to the fixed chat;
\* an exception of the call is logged and not raised again.
send_message(chat_id, message, delivered, log) ==
    [raised |-> FALSE,
     sent   |-> Append(log, [chat_id |-> chat_id, text |-> message,
                             delivered |-> delivered])]

\* get_api_answer without the status check of line 62.
get_api_answer_no_status_check(timestamp_arg, now, resp) ==
    LET timestamp == IF timestamp_arg # 0 THEN timestamp_arg ELSE now
        request   == [from_date |-> timestamp, time |-> now]
    IN  IF resp.kind = "raised"
        THEN [raised |-> TRUE, value |-> None, decoded |-> FALSE,
              requests |-> <<request>>,
              error |-> Exc("Exception",
                            <<"Error while accessing the api: ",
                              "connection failed">>)]
        ELSE IF ~resp.valid
        THEN [raised |-> TRUE, value |-> None, decoded |-> TRUE,
              requests |-> <<request>>,
              error |-> Exc("ValueError", <<"Expecting value">>)]
        ELSE [raised |-> FALSE, value |-> resp.json, decoded |-> TRUE,
              requests |-> <<request>>, error |-> NoError]

\* get_api_answer that repeats a request that could not complete.
get_api_answer_retries(timestamp_arg, now, resp) ==
    LET timestamp == IF timestamp_arg # 0 THEN timestamp_arg ELSE now
        request   == [from_date |-> timestamp, time |-> now]
    IN  IF resp.kind = "raised"
        THEN [raised |-> TRUE, value |-> None, decoded |-> FALSE,
              requests |-> <<request, request>>,
              error |-> Exc("Exception",
                            <<"Error while accessing the api: ",
                              "connection failed">>)]
        ELSE IF resp.status_code # HTTP_OK
        THEN [raised |-> TRUE, value |-> None, decoded |-> FALSE,
              requests |-> <<request>>,
              error |-> Exc("EndpointUnavailableError",
                            <<"Endpoint unavailable.", "Error status: ",
                              ToString(resp.status_code)>>)]
        ELSE IF ~resp.valid
        THEN [raised |-> TRUE, value |-> None, decoded |-> TRUE,
              requests |-> <<request>>,
              error |-> Exc("ValueError", <<"Expecting value">>)]
        ELSE [raised |-> FALSE, value |-> resp.json, decoded |-> TRUE,
              requests |-> <<request>>, error |-> NoError]

\* get_api_answer without the fallback of line 52.
get_api_answer_no_fallback(timestamp_arg, now, resp) ==
    LET request == [from_date |-> timestamp_arg, time |-> now]
    IN  IF resp.kind = "raised"
        THEN [raised |-> TRUE, value |-> None, decoded |-> FALSE,
              requests |-> <<request>>,
              error |-> Exc("Exception",
                            <<"Error while accessing the api: ",
                              "connection failed">>)]
        ELSE IF resp.status_code # HTTP_OK
        THEN [raised |-> TRUE, value |-> None, decoded |-> FALSE,
              requests |-> <<request>>,
              error |-> Exc("EndpointUnavailableError",
                            <<"Endpoint unavailable.", "Error status: ",
                              ToString(resp.status_code)>>)]
        ELSE IF ~resp.valid
        THEN [raised |-> TRUE, value |-> None, decoded |-> TRUE,
              requests |-> <<request>>,
              error |-> Exc("ValueError", <<"Expecting value">>)]
        ELSE [raised |-> FALSE, value |-> resp.json, decoded |-> TRUE,
              requests |-> <<request>>, error |-> NoError]

\* get_api_answer (lines 50-68), on what requests.get produces at time now.
get_api_answer(timestamp_arg, now, resp) ==
    LET timestamp == IF timestamp_arg # 0 THEN timestamp_arg ELSE now
        request   == [from_date |-> timestamp, time |-> now]
    IN  IF resp.kind = "raised"
        THEN [raised |-> TRUE, value |-> None, decoded |-> FALSE,
              requests |-> <<request>>,
              error |-> Exc("Exception",
                            <<"Error while accessing the api: ",
                              "connection failed">>)]
        ELSE IF resp.status_code # HTTP_OK
        THEN [raised |-> TRUE, value |-> None, decoded |-> FALSE,
              requests |-> <<request>>,
              error |-> Exc("EndpointUnavailableError",
                            <<"Endpoint unavailable.", "Error status: ",
                              ToString(resp.status_code)>>)]
        ELSE IF ~resp.valid
        THEN [raised |-> TRUE, value |-> None, decoded |-> TRUE,
              requests |-> <<request>>,
              error |-> Exc("ValueError", <<"Expecting value">>)]
        ELSE [raised |-> FALSE, value |-> resp.json, decoded |-> TRUE,
              requests |-> <<request>>, error |-> NoError]

\* check_response that takes whatever is no list for an empty list.
check_response_lenient(resp) ==
    IF ~IsDict(resp)
    THEN [raised |-> TRUE, value |-> None,
          error |-> Exc("TypeError", <<"The api answer is not a dict.">>)]
    ELSE LET homeworks_list == Get(resp, "homeworks")
         IN  [raised |-> FALSE,
              value |-> IF IsList(homeworks_list) THEN homeworks_list
                        ELSE PyList(<<>>),
              error |-> NoError]

\* check_response reading the key with response.get('homeworks', []).
check_response_default_list(resp) ==
    IF ~IsDict(resp)
    THEN [raised |-> TRUE, value |-> None,
          error |-> Exc("TypeError", <<"The api answer is not a dict.">>)]
    ELSE LET homeworks_list == IF "homeworks" \in DOMAIN resp.v
                               THEN resp.v["homeworks"] ELSE PyList(<<>>)
         IN  IF ~IsList(homeworks_list)
             THEN [raised |-> TRUE, value |-> None,
                   error |-> Exc("TypeError",
                                 <<"Under the key homeworks there is no list.">>)]
             ELSE [raised |-> FALSE, value |-> homeworks_list,
                   error |-> NoError]

\* check_response (lines 71-85).
check_response(resp) ==
    IF ~IsDict(resp)
    THEN [raised |-> TRUE, value |-> None,
          error |-> Exc("TypeError", <<"The api answer is not a dict.">>)]
    ELSE LET homeworks_list == Get(resp, "homeworks")
         IN  IF ~IsList(homeworks_list)
             THEN [raised |-> TRUE, value |-> None,
                   error |-> Exc("TypeError",
                                 <<"Under the key homeworks there is no list.">>)]
             ELSE [raised |-> FALSE, value |-> homeworks_list,
                   error |-> NoError]

\* parse_status that puts the status where the verdict belongs.
parse_status_status_as_verdict(homework) ==
    IF ~IsDict(homework)
    THEN [raised |-> TRUE, value |-> <<>>,
          error |-> Exc("AttributeError",
                        <<"object has no attribute 'get'">>)]
    ELSE LET homework_name   == Get(homework, "homework_name")
             homework_status == Get(homework, "status")
         IN  IF \/ ~Truthy(homework_name)
                \/ ~(/\ homework_status.t = "str"
                     /\ homework_status.v \in DOMAIN HOMEWORK_STATUSES)
             THEN [raised |-> TRUE, value |-> <<>>,
                   error |-> Exc("KeyError",
                                 <<"Unexpected input data: ", "name: ",
                                   Format(homework_name), ", status: ",
                                   Format(homework_status)>>)]
             ELSE [raised |-> FALSE,
                   value |-> <<"Changed review status of work \"",
                               Format(homework_name), "\". ",
                               Format(homework_status)>>,
                   error |-> NoError]

\* parse_status that tests the status only and lets a blank name through.
parse_status_accepts_blank_name(homework) ==
    IF ~IsDict(homework)
    THEN [raised |-> TRUE, value |-> <<>>,
          error |-> Exc("AttributeError",
                        <<"object has no attribute 'get'">>)]
    ELSE LET homework_name   == Get(homework, "homework_name")
             homework_status == Get(homework, "status")
         IN  IF ~(/\ homework_status.t = "str"
                  /\ homework_status.v \in DOMAIN HOMEWORK_STATUSES)
             THEN [raised |-> TRUE, value |-> <<>>,
                   error |-> Exc("KeyError",
                                 <<"Unexpected input data: ", "name: ",
                                   Format(homework_name), ", status: ",
                                   Format(homework_status)>>)]
             ELSE [raised |-> FALSE,
                   value |-> <<"Changed review status of work \"",
                               Format(homework_name), "\". ",
                               HOMEWORK_STATUSES[homework_status.v]>>,
                   error |-> NoError]

\* parse_status (lines 88-101); homework.get fails on what is no mapping.
parse_status(homework) ==
    IF ~IsDict(homework)
    THEN [raised |-> TRUE, value |-> <<>>,
          error |-> Exc("AttributeError",
                        <<"object has no attribute 'get'">>)]
    ELSE LET homework_name   == Get(homework, "homework_name")
             homework_status == Get(homework, "status")
         IN  IF \/ ~Truthy(homework_name)
                \/ ~(/\ homework_status.t = "str"
                     /\ homework_status.v \in DOMAIN HOMEWORK_STATUSES)
             THEN [raised |-> TRUE, value |-> <<>>,
                   error |-> Exc("KeyError",
                                 <<"Unexpected input data: ", "name: ",
                                   Format(homework_name), ", status: ",
                                   Format(homework_status)>>)]
             ELSE [raised |-> FALSE,
                   value |-> <<"Changed review status of work \"",
                               Format(homework_name), "\". ",
                               HOMEWORK_STATUSES[homework_status.v]>>,
                   error |-> NoError]

\* check_tokens that forgets the chat id.
check_tokens_without_chat_id(e) ==
    /\ Truthy(e.PRACTICUM_TOKEN)
    /\ Truthy(e.TELEGRAM_TOKEN)

\* check_tokens (lines 104-112).
check_tokens(e) ==
    /\ Truthy(e.PRACTICUM_TOKEN)
    /\ Truthy(e.TELEGRAM_TOKEN)
    /\ Truthy(e.TELEGRAM_CHAT_ID)

\* The failure message without the error.
failure_message_generic(err) == <<"Program failure: ">>

\* The message of line 136.
failure_message(err) == <<"Program failure: ">> \o Str(err)

\* An except clause that names one class only.
Caught_endpoint_only(err) == err.type = "EndpointUnavailableError"

\* except Exception (line 135).
Caught(err) == IsException(err)

\* Where main() continues after an exception raised inside the try block.
Raise(err) == IF Caught(err) THEN "except" ELSE "crashed"

\* time.time() after d more seconds.
Later(now, d) == IF now + d <= MaxTime THEN now + d ELSE MaxTime

---------------------------------------------------------------------------
Init ==
    /\ env \in [PRACTICUM_TOKEN : Credentials, TELEGRAM_TOKEN : Credentials,
                TELEGRAM_CHAT_ID : Credentials]
    /\ pc = "main"
    /\ clock = StartTime
    /\ current_timestamp = 0
    /\ response = NoResponse
    /\ homeworks_data = None
    /\ homeworks = None
    /\ i = 0
    /\ error = NoError
    /\ requests = <<>>
    /\ decoded = FALSE
    /\ sent = <<>>
    /\ slept = <<>>
    /\ trace = <<>>

\* Lines 117-121: the credential check, the bot, the first cursor.
Startup ==
    /\ pc = "main"
    /\ IF ~check_tokens(env)
       THEN pc' = "return" /\ UNCHANGED current_timestamp
       ELSE pc' = "while" /\ current_timestamp' = clock
    /\ UNCHANGED <<env, clock, response, homeworks_data, homeworks, i, error,
                   requests, decoded, sent, slept, trace>>

\* Line 123: the next iteration begins.  The locals of the iteration before
\* are dead from here on and are cleared; the logs of the iteration start
\* again.
While ==
    /\ pc = "while"
    /\ pc' = "get_api_answer"
    /\ response' = NoResponse
    /\ homeworks_data' = None
    /\ homeworks' = None
    /\ i' = 0
    /\ error' = NoError
    /\ requests' = <<>>
    /\ decoded' = FALSE
    /\ sent' = <<>>
    /\ slept' = <<>>
    /\ trace' = <<>>
    /\ UNCHANGED <<env, clock, current_timestamp>>

\* Line 125.
GetApiAnswer ==
    /\ pc = "get_api_answer"
    /\ \E resp \in Responses :
         LET r == get_api_answer(current_timestamp, clock, resp)
         IN  /\ response' = resp
             /\ requests' = r.requests
             /\ decoded' = r.decoded
             /\ homeworks_data' = r.value
             /\ error' = r.error
             /\ pc' = IF r.raised THEN Raise(r.error) ELSE "check_response"
    /\ trace' = Append(trace, "get_api_answer")
    /\ UNCHANGED <<env, clock, current_timestamp, homeworks, i, sent, slept>>

\* Line 127.
CheckResponse ==
    /\ pc = "check_response"
    /\ LET r == check_response(homeworks_data)
       IN  /\ homeworks' = r.value
           /\ error' = r.error
           /\ i' = IF r.raised THEN 0 ELSE 1
           /\ pc' = IF r.raised THEN Raise(r.error) ELSE "for"
    /\ trace' = Append(trace, "check_response")
    /\ UNCHANGED <<env, clock, current_timestamp, response, homeworks_data,
                   requests, decoded, sent, slept>>

\* A for loop that gives up the rest of the list once a delivery failed.
Notify_stops_on_undelivered ==
    /\ pc = "for"
    /\ i <= Len(homeworks.v)
    /\ LET p == parse_status(homeworks.v[i])
       IN  IF p.raised
           THEN /\ error' = p.error
                /\ pc' = Raise(p.error)
                /\ trace' = Append(trace, "parse_status")
                /\ UNCHANGED <<i, sent>>
           ELSE \E delivered \in BOOLEAN :
                  LET s == send_message(env.TELEGRAM_CHAT_ID, p.value,
                                        delivered, sent)
                  IN  /\ sent' = s.sent
                      /\ trace' = trace \o <<"parse_status", "send_message">>
                      /\ i' = IF delivered THEN i + 1
                              ELSE Len(homeworks.v) + 1
                      /\ UNCHANGED <<error, pc>>
    /\ UNCHANGED <<env, clock, current_timestamp, response, homeworks_data,
                   homeworks, requests, decoded, slept>>

\* A for loop that passes over a record parse_status refuses.
Notify_skips_refused ==
    /\ pc = "for"
    /\ i <= Len(homeworks.v)
    /\ LET p == parse_status(homeworks.v[i])
       IN  IF p.raised
           THEN /\ i' = i + 1
                /\ trace' = Append(trace, "parse_status")
                /\ UNCHANGED <<error, pc, sent>>
           ELSE \E delivered \in BOOLEAN :
                  LET s == send_message(env.TELEGRAM_CHAT_ID, p.value,
                                        delivered, sent)
                  IN  /\ sent' = s.sent
                      /\ trace' = trace \o <<"parse_status", "send_message">>
                      /\ i' = i + 1
                      /\ UNCHANGED <<error, pc>>
    /\ UNCHANGED <<env, clock, current_timestamp, response, homeworks_data,
                   homeworks, requests, decoded, slept>>

\* Lines 129-130, one record: format it and send the notification.
Notify ==
    /\ pc = "for"
    /\ i <= Len(homeworks.v)
    /\ LET p == parse_status(homeworks.v[i])
       IN  IF p.raised
           THEN /\ error' = p.error
                /\ pc' = Raise(p.error)
                /\ trace' = Append(trace, "parse_status")
                /\ UNCHANGED <<i, sent>>
           ELSE \E delivered \in BOOLEAN :
                  LET s == send_message(env.TELEGRAM_CHAT_ID, p.value,
                                        delivered, sent)
                  IN  /\ sent' = s.sent
                      /\ trace' = trace \o <<"parse_status", "send_message">>
                      /\ IF s.raised
                         THEN /\ error' = Exc("Exception", <<"delivery failed">>)
                              /\ pc' = Raise(error')
                              /\ UNCHANGED i
                         ELSE /\ i' = i + 1
                              /\ UNCHANGED <<error, pc>>
    /\ UNCHANGED <<env, clock, current_timestamp, response, homeworks_data,
                   homeworks, requests, decoded, slept>>

\* The cursor moved inside the branch of the non-empty list only.
Advance_nonempty_only ==
    /\ pc = "for"
    /\ i > Len(homeworks.v)
    /\ current_timestamp' = IF Truthy(homeworks) THEN clock
                            ELSE current_timestamp
    /\ pc' = "sleep"
    /\ trace' = Append(trace, "advance")
    /\ UNCHANGED <<env, clock, response, homeworks_data, homeworks, i, error,
                   requests, decoded, sent, slept>>

\* The cursor taken from the payload's current_date, zero when it has none.
Advance_from_payload ==
    /\ pc = "for"
    /\ i > Len(homeworks.v)
    /\ current_timestamp' =
         IF "current_date" \in DOMAIN homeworks_data.v
         THEN homeworks_data.v["current_date"].v ELSE 0
    /\ pc' = "sleep"
    /\ trace' = Append(trace, "advance")
    /\ UNCHANGED <<env, clock, response, homeworks_data, homeworks, i, error,
                   requests, decoded, sent, slept>>

\* Lines 128-133 once the list is exhausted (or empty): the cursor moves.
Advance ==
    /\ pc = "for"
    /\ i > Len(homeworks.v)
    /\ current_timestamp' = clock
    /\ pc' = "sleep"
    /\ trace' = Append(trace, "advance")
    /\ UNCHANGED <<env, clock, response, homeworks_data, homeworks, i, error,
                   requests, decoded, sent, slept>>

\* A handler that goes back to the loop head without the sleep of line 139.
Except_without_sleep ==
    /\ pc = "except"
    /\ \E delivered \in BOOLEAN :
         LET s == send_message(env.TELEGRAM_CHAT_ID, failure_message(error),
                               delivered, sent)
         IN  /\ sent' = s.sent
             /\ pc' = IF s.raised THEN "crashed" ELSE "while"
    /\ trace' = trace \o <<"except", "send_message">>
    /\ UNCHANGED <<env, clock, current_timestamp, response, homeworks_data,
                   homeworks, i, error, requests, decoded, slept>>

\* A handler that also moves the cursor.
Except_moves_cursor ==
    /\ pc = "except"
    /\ \E delivered \in BOOLEAN :
         LET s == send_message(env.TELEGRAM_CHAT_ID, failure_message(error),
                               delivered, sent)
         IN  /\ sent' = s.sent
             /\ pc' = IF s.raised THEN "crashed" ELSE "sleep"
    /\ current_timestamp' = clock
    /\ trace' = trace \o <<"except", "send_message">>
    /\ UNCHANGED <<env, clock, response, homeworks_data,
                   homeworks, i, error, requests, decoded, slept>>

\* Lines 135-138: the failure message.
Except ==
    /\ pc = "except"
    /\ \E delivered \in BOOLEAN :
         LET s == send_message(env.TELEGRAM_CHAT_ID, failure_message(error),
                               delivered, sent)
         IN  /\ sent' = s.sent
             /\ pc' = IF s.raised THEN "crashed" ELSE "sleep"
    /\ trace' = trace \o <<"except", "send_message">>
    /\ UNCHANGED <<env, clock, current_timestamp, response, homeworks_data,
                   homeworks, i, error, requests, decoded, slept>>

\* Lines 134 and 139.
Sleep ==
    /\ pc = "sleep"
    /\ clock' = Later(clock, RETRY_TIME)
    /\ slept' = Append(slept, RETRY_TIME)
    /\ pc' = "while"
    /\ trace' = Append(trace, "sleep")
    /\ UNCHANGED <<env, current_timestamp, response, homeworks_data,
                   homeworks, i, error, requests, decoded, sent>>

\* A second passes between the request and the end of the notifications.
Tick ==
    /\ pc \in {"check_response", "for"}
    /\ clock < requests[1].time + MaxElapsed
    /\ clock < MaxTime
    /\ clock' = clock + 1
    /\ UNCHANGED <<env, pc, current_timestamp, response, homeworks_data,
                   homeworks, i, error, requests, decoded, sent, slept, trace>>

\* The steps of main().
Step ==
    \/ Startup
    \/ While
    \/ GetApiAnswer
    \/ CheckResponse
    \/ Notify
    \/ Advance
    \/ Except
    \/ Sleep

Next == Step \/ Tick

Spec == Init /\ [][Next]_vars

\* main() is one thread and every blocking call returns.
FairSpec == Spec /\ WF_vars(Step)

---------------------------------------------------------------------------
\* get_api_answer called on its own, with any cursor (zero stands for a
\* cursor that is zero or unset) at any time of the host clock.
FetchClocks == { StartTime + d : d \in 0..MaxElapsed } \cup {MaxTime}
FetchCursors == {0} \cup FetchClocks

FetchInit ==
    /\ env = [PRACTICUM_TOKEN |-> PyStr("secret"),
              TELEGRAM_TOKEN |-> PyStr("secret"),
              TELEGRAM_CHAT_ID |-> PyStr("secret")]
    /\ pc = "call"
    /\ clock \in FetchClocks
    /\ current_timestamp \in FetchCursors
    /\ response = NoResponse
    /\ homeworks_data = None
    /\ homeworks = None
    /\ i = 0
    /\ error = NoError
    /\ requests = <<>>
    /\ decoded = FALSE
    /\ sent = <<>>
    /\ slept = <<>>
    /\ trace = <<>>

FetchCall ==
    /\ pc = "call"
    /\ \E resp \in Responses :
         LET r == get_api_answer(current_timestamp, clock, resp)
         IN  /\ response' = resp
             /\ requests' = r.requests
             /\ decoded' = r.decoded
             /\ homeworks_data' = r.value
             /\ error' = r.error
             /\ pc' = IF r.raised THEN "raised" ELSE "returned"
    /\ trace' = Append(trace, "get_api_answer")
    /\ UNCHANGED <<env, clock, current_timestamp, homeworks, i, sent, slept>>

FetchNext == FetchCall

FetchSpec == FetchInit /\ [][FetchNext]_vars

InLoop == pc \notin {"main", "return"}

---------------------------------------------------------------------------
\* Vocabulary of the properties.
Range(q) == { q[k] : k \in 1..Len(q) }
Last(q) == q[Len(q)]
Count(q, x) == Cardinality({ k \in 1..Len(q) : q[k] = x })

\* part occurs in text as a run of consecutive fragments.
Includes(text, part) ==
    \E k \in 1..Len(text) :
        /\ k + Len(part) - 1 <= Len(text)
        /\ SubSeq(text, k, k + Len(part) - 1) = part

\* The positions of the failure messages in a log of bot calls.
FailureMessages(log) ==
    { k \in 1..Len(log) : log[k].text[1] = "Program failure: " }

\* All three credentials are set and not empty.
AllPresent(e) ==
    \A k \in {"PRACTICUM_TOKEN", "TELEGRAM_TOKEN", "TELEGRAM_CHAT_ID"} :
        e[k].t = "str" /\ e[k].v # ""

\* The iteration failed: an exception reached the handler of line 135.
Failed == error # NoError

---------------------------------------------------------------------------
\* C1: once the credential check has passed, no state of main() is
\* terminal; every failure of an iteration (of the fetch, the validation or
\* the formatting) is followed by the sleep of RETRY_TIME and then by another
\* fetch; and a fetch happens again and again.
C1_LoopNeverTerminates ==
    /\ [](InLoop => (pc # "crashed" /\ ENABLED Step))
    /\ [](pc = "except" =>
            <>(pc = "while" /\ Failed /\ slept = <<RETRY_TIME>>))
    /\ [](InLoop => <>(trace = <<"get_api_answer">>))

\* A failed iteration has slept and the next iteration is about to begin.
C1_Witness == pc = "while" /\ Failed /\ slept = <<RETRY_TIME>>

\* C2: with a credential absent or empty main() returns before the loop: no
\* HTTP request, no bot message, no step of the loop; with all three present
\* main() never returns and enters the loop.
C2_NoCredentialsNoLoop ==
    /\ ~AllPresent(env) =>
         /\ pc \in {"main", "return"}
         /\ requests = <<>> /\ response = NoResponse
         /\ sent = <<>> /\ slept = <<>> /\ trace = <<>>
    /\ (AllPresent(env) /\ pc # "main") => InLoop

\* main() has returned for want of the chat id alone.
C2_Witness ==
    /\ pc = "return"
    /\ env.TELEGRAM_CHAT_ID = None
    /\ Truthy(env.PRACTICUM_TOKEN) /\ Truthy(env.TELEGRAM_TOKEN)

\* C3: a failed iteration sends the chat exactly one failure message, which
\* includes the text of the error, whether or not its delivery succeeds, and
\* then sleeps RETRY_TIME once before the next fetch.
C3_OneFailureMessageThenSleep ==
    /\ Failed => pc \in {"except", "sleep", "while"}
    /\ pc = "except" => (Failed /\ FailureMessages(sent) = {})
    /\ (Failed /\ pc \in {"sleep", "while"}) =>
         /\ FailureMessages(sent) = {Len(sent)}
         /\ Includes(Last(sent).text, error.text)
         /\ Last(sent).chat_id = env.TELEGRAM_CHAT_ID
         /\ Count(trace, "except") = 1
    /\ (Failed /\ pc = "sleep") => slept = <<>>
    /\ (Failed /\ pc = "while") =>
         /\ slept = <<RETRY_TIME>>
         /\ SubSeq(trace, Len(trace) - 2, Len(trace))
              = <<"except", "send_message", "sleep">>

\* A failed iteration whose failure message was not delivered has slept.
C3_Witness ==
    /\ Failed /\ pc = "while"
    /\ sent # <<>> /\ ~Last(sent).delivered
    /\ slept = <<RETRY_TIME>>

\* C4: every call of send_message makes exactly one bot call and returns
\* normally, delivered or not: after a notification the for loop goes on with
\* the next record, after the failure message main() goes to its sleep.
C4_SendMessageSwallows ==
    /\ pc # "crashed"
    /\ Count(trace, "send_message") = Len(sent)
    /\ (trace # <<>> /\ Last(trace) = "send_message") =>
         /\ pc \in {"for", "sleep"}
         /\ pc = "for" => (~Failed /\ i = Len(sent) + 1)
         /\ pc = "sleep" => Failed

\* A notification failed to be delivered and the for loop goes on.
C4_Witness ==
    /\ trace # <<>> /\ Last(trace) = "send_message"
    /\ ~Last(sent).delivered
    /\ pc = "for"

\* C5: after a successful iteration the cursor is the time at which that
\* iteration's fetch was made, so that a status change right after that
\* fetch lies inside the window of the next one.
C5_CursorIsFetchTime ==
    (pc \in {"sleep", "while"} /\ trace # <<>> /\ ~Failed) =>
        current_timestamp = requests[1].time

\* The payload has a "homeworks" value that is no list.
NotAList(p) ==
    IF ~IsDict(p) THEN FALSE
    ELSE IF "homeworks" \notin DOMAIN p.v THEN FALSE
    ELSE p.v["homeworks"].t # "list"

\* C6: on a payload whose "homeworks" value is no list check_response fails
\* with the error of line 83, no record is formatted and no status
\* notification is sent in that iteration (the one message to the chat is
\* the failure message), and the loop sleeps RETRY_TIME and begins the next
\* iteration with its fetch.
C6_NotAListFailsQuietly ==
    (NotAList(homeworks_data) /\ pc # "check_response") =>
        /\ error = Exc("TypeError",
                       <<"Under the key homeworks there is no list.">>)
        /\ trace[2] = "check_response"
        /\ Count(trace, "parse_status") = 0
        /\ FailureMessages(sent) = 1..Len(sent)
        /\ homeworks = None
        /\ pc \in {"except", "sleep", "while"}
        /\ pc = "while" =>
             /\ slept = <<RETRY_TIME>>
             /\ Last(trace) = "sleep"
             /\ ENABLED While

\* The iteration of {"homeworks": "not-a-list"} has slept.
C6_Witness ==
    /\ homeworks_data = PyDict([homeworks |-> PyStr("not-a-list")])
    /\ pc = "while"
    /\ slept = <<RETRY_TIME>>

\* C7 (as stated): a status other than 200 raises EndpointUnavailableError
\* and nothing reaches check_response; on status 200 the decoded body is
\* returned and passed to check_response.
C7_Status200AlwaysValidated ==
    (response.kind = "response" /\ response.status_code = 200
        /\ Last(trace) = "get_api_answer") =>
            /\ pc = "check_response"
            /\ homeworks_data = response.json

\* C7 (amended): a status other than 200 raises EndpointUnavailableError with
\* the status code in its text, the body is not decoded and check_response
\* is not called in that iteration; on status 200 with a body that decodes
\* as JSON the decoded body is returned and passed to check_response; on
\* status 200 with a body that does not decode, the decoding error goes to
\* the handler of the loop and check_response is not called.
C7_Non200NeverValidated ==
    /\ (response.kind = "response" /\ response.status_code # 200) =>
         /\ error.type = "EndpointUnavailableError"
         /\ Includes(error.text, <<ToString(response.status_code)>>)
         /\ ~decoded
         /\ homeworks_data = None
         /\ Count(trace, "check_response") = 0
         /\ pc \in {"except", "sleep", "while"}
    /\ (response.kind = "response" /\ response.status_code = 200
          /\ response.valid) =>
         /\ decoded
         /\ homeworks_data = response.json
         /\ Last(trace) = "get_api_answer" => (pc = "check_response" /\ ~Failed)
         /\ pc # "check_response" => trace[2] = "check_response"
    /\ (response.kind = "response" /\ response.status_code = 200
          /\ ~response.valid) =>
         /\ decoded
         /\ error.type = "ValueError"
         /\ Count(trace, "check_response") = 0
         /\ pc \in {"except", "sleep", "while"}
    /\ Count(trace, "check_response") > 0 =>
         (response.status_code = 200 /\ homeworks_data = response.json)

\* An iteration that met status 404 has reported it and slept.
C7_Witness ==
    /\ response.status_code = 404
    /\ pc = "while"
    /\ Count(trace, "check_response") = 0
    /\ slept = <<RETRY_TIME>>

\* A record parse_status accepts: a mapping with a non-empty name and one of
\* the three statuses.
WellFormed(rec) ==
    IF ~IsDict(rec) THEN FALSE
    ELSE IF {"homework_name", "status"} \ DOMAIN rec.v # {} THEN FALSE
    ELSE /\ rec.v["homework_name"].t = "str"
         /\ rec.v["homework_name"].v # ""
         /\ rec.v["status"].t = "str"
         /\ rec.v["status"].v \in {"approved", "reviewing", "rejected"}

ExpectedVerdict(status) ==
    CASE status = "approved" ->
           "Work checked: the reviewer liked everything. Hooray!"
      [] status = "reviewing" -> "Work taken for review by the reviewer."
      [] status = "rejected" -> "Work checked: the reviewer has remarks."

ExpectedText(rec) ==
    <<"Changed review status of work \"", rec.v["homework_name"].v, "\". ",
      ExpectedVerdict(rec.v["status"].v)>>

\* C8: an iteration whose validated list holds n well-formed records makes
\* exactly n bot calls, the k-th with the text of the k-th record (its name
\* and the verdict of its status), to the configured chat, and no failure
\* message; the list of the one record hw1/approved gives one notification
\* that holds "hw1" and the approved verdict.
C8_OneNotificationPerRecord ==
    (IsList(homeworks) /\ \A k \in 1..Len(homeworks.v) : WellFormed(homeworks.v[k])) =>
        /\ ~Failed
        /\ pc \in {"for", "sleep", "while"}
        /\ pc = "for" => Len(sent) = i - 1
        /\ pc \in {"sleep", "while"} => Len(sent) = Len(homeworks.v)
        /\ Len(sent) <= Len(homeworks.v)
        /\ Count(trace, "send_message") = Len(sent)
        /\ \A k \in 1..Len(sent) :
             /\ sent[k].text = ExpectedText(homeworks.v[k])
             /\ sent[k].chat_id = env.TELEGRAM_CHAT_ID
        /\ FailureMessages(sent) = {}
        /\ (homeworks.v = <<Homework(PyStr("hw1"), PyStr("approved"))>>
              /\ pc \in {"sleep", "while"}) =>
             /\ Len(sent) = 1
             /\ "hw1" \in Range(sent[1].text)
             /\ "Work checked: the reviewer liked everything. Hooray!"
                  \in Range(sent[1].text)

\* Two different well-formed records have been notified, in list order.
C8_Witness ==
    /\ IsList(homeworks) /\ Len(homeworks.v) = 2
    /\ \A k \in 1..2 : WellFormed(homeworks.v[k])
    /\ homeworks.v[1] # homeworks.v[2]
    /\ pc = "while"
    /\ Len(sent) = 2

\* C9: an iteration whose validated list is empty makes no bot call, does not
\* fail, moves the cursor (to a time not before its fetch) and sleeps once
\* before the next iteration.
C9_EmptyListIsSilentSuccess ==
    (IsList(homeworks) /\ homeworks.v = <<>>) =>
        /\ sent = <<>>
        /\ Count(trace, "send_message") = 0
        /\ ~Failed
        /\ pc \in {"for", "sleep", "while"}
        /\ pc = "for" =>
             trace = <<"get_api_answer", "check_response">>
        /\ pc = "sleep" =>
             /\ trace = <<"get_api_answer", "check_response", "advance">>
             /\ slept = <<>>
        /\ pc = "while" =>
             /\ trace = <<"get_api_answer", "check_response", "advance",
                          "sleep">>
             /\ slept = <<RETRY_TIME>>
        /\ pc \in {"sleep", "while"} =>
             /\ current_timestamp >= requests[1].time
             /\ current_timestamp <= clock

\* A later iteration with an empty list has moved the cursor and slept.
C9_Witness ==
    /\ IsList(homeworks) /\ homeworks.v = <<>>
    /\ pc = "while"
    /\ requests[1].from_date < current_timestamp
    /\ requests[1].time > StartTime

\* check_response has to fail on the payload.
BadShape(p) ==
    IF ~IsDict(p) THEN TRUE
    ELSE IF "homeworks" \notin DOMAIN p.v THEN TRUE
    ELSE p.v["homeworks"].t # "list"

\* C10: check_response fails exactly on a payload that is no mapping or
\* whose "homeworks" value is no list (the key being absent included),
\* whatever other fields there are; otherwise it returns the value at
\* "homeworks" as it is, empty or not, whatever its records are.
C10_CheckResponseShape ==
    (trace # <<>> /\ Last(trace) = "check_response") =>
        /\ Failed <=> BadShape(homeworks_data)
        /\ BadShape(homeworks_data) =>
             (error.type = "TypeError" /\ pc = "except" /\ homeworks = None)
        /\ ~BadShape(homeworks_data) =>
             /\ homeworks = homeworks_data.v["homeworks"]
             /\ pc = "for"
             /\ i = 1

\* check_response has returned a list whose first element is no mapping.
C10_Witness ==
    /\ trace # <<>> /\ Last(trace) = "check_response"
    /\ pc = "for"
    /\ Len(homeworks.v) > 0
    /\ homeworks.v[1] = PyStr("not-a-record")

\* The record parse_status was last called on, once it has been called.
Parsed == Count(trace, "parse_status") > 0
LastParsed ==
    IF Last(trace) = "parse_status" THEN homeworks.v[i]
    ELSE homeworks.v[Len(sent)]

\* The name of a mapping is absent or empty, or its status is none of the
\* three recognized ones (absent included).
Malformed(rec) ==
    \/ "homework_name" \notin DOMAIN rec.v
    \/ rec.v["homework_name"] \in {None, PyStr("")}
    \/ "status" \notin DOMAIN rec.v
    \/ rec.v["status"] \notin
         {PyStr("approved"), PyStr("reviewing"), PyStr("rejected")}

\* C11: on a record (a mapping) parse_status fails, with the data error of
\* line 98, exactly when the name is absent or empty or the status is none of
\* approved, reviewing, rejected; otherwise it returns the message built
\* from the name and the verdict of the status, and the three verdicts
\* differ.
C11_ParseStatusContract ==
    /\ (Parsed /\ pc \in {"for", "except"} /\ Last(trace) # "except"
          /\ IsDict(LastParsed)) =>
         /\ Last(trace) = "parse_status" <=> Malformed(LastParsed)
         /\ Malformed(LastParsed) =>
              /\ pc = "except"
              /\ error.type = "KeyError"
              /\ error.text[1] = "Unexpected input data: "
         /\ ~Malformed(LastParsed) =>
              /\ pc = "for" /\ ~Failed
              /\ Last(sent).text = ExpectedText(LastParsed)
    /\ Cardinality({ HOMEWORK_STATUSES[st] : st \in DOMAIN HOMEWORK_STATUSES }) = 3
    /\ DOMAIN HOMEWORK_STATUSES = {"approved", "reviewing", "rejected"}

\* parse_status has refused a record that has a name and no status.
C11_Witness ==
    /\ Parsed /\ Last(trace) = "parse_status"
    /\ pc = "except"
    /\ LastParsed = PyDict([homework_name |-> PyStr("hw1")])

\* The fetch of this iteration failed: no request completed, or the status
\* was not 200.
FetchFailed ==
    \/ response.kind = "raised"
    \/ response.kind = "response" /\ response.status_code # 200

\* C12: when the network call cannot complete get_api_answer fails with the
\* transport error of line 60; neither that failure nor a status other than
\* 200 is retried: every iteration issues exactly one HTTP request, and the
\* failure is handled by the handler of the same iteration.
C12_FetchFailureNotRetried ==
    /\ trace # <<>> =>
         /\ Len(requests) = 1
         /\ Count(trace, "get_api_answer") = 1
         /\ trace[1] = "get_api_answer"
    /\ trace = <<>> => requests = <<>>
    /\ response.kind = "raised" =>
         /\ error.type = "Exception"
         /\ error.text[1] = "Error while accessing the api: "
         /\ ~decoded
    /\ FetchFailed =>
         /\ Failed
         /\ pc \in {"except", "sleep", "while"}
         /\ pc = "except" => trace = <<"get_api_answer">>
         /\ pc \in {"sleep", "while"} =>
              /\ SubSeq(trace, 1, 3) = <<"get_api_answer", "except", "send_message">>
              /\ Last(sent).text = failure_message(error)

\* The request could not complete and the handler has reported it.
C12_Witness ==
    /\ response.kind = "raised"
    /\ pc = "sleep"
    /\ Len(requests) = 1
    /\ Len(sent) = 1

\* C13: in every iteration check_response runs only after the fetch of the
\* iteration succeeded, a record is formatted and notified only after
\* check_response succeeded, the sleep is the last step, and the next
\* iteration (whose first step is the fetch) begins only after exactly one
\* sleep of 600 seconds, after a success and after a failure alike.
C13_FetchValidateNotifySleep ==
    /\ RETRY_TIME = 600
    /\ pc = "get_api_answer" => trace = <<>>
    /\ Count(trace, "check_response") > 0 =>
         /\ SubSeq(trace, 1, 2) = <<"get_api_answer", "check_response">>
         /\ Count(trace, "check_response") = 1
         /\ response.kind = "response" /\ response.status_code = 200
         /\ response.valid /\ homeworks_data = response.json
    /\ \A k \in 1..Len(trace) :
         /\ trace[k] = "parse_status" =>
              (k > 2 /\ trace[2] = "check_response" /\ IsList(homeworks))
         /\ trace[k] = "advance" =>
              (k > 2 /\ trace[2] = "check_response" /\ k >= Len(trace) - 1)
         /\ trace[k] = "sleep" => k = Len(trace)
    /\ (InLoop /\ pc # "while") =>
         (slept = <<>> /\ Count(trace, "sleep") = 0)
    /\ (pc = "while" /\ trace = <<>>) => (slept = <<>> /\ clock = StartTime)
    /\ (pc = "while" /\ trace # <<>>) =>
         /\ trace[1] = "get_api_answer"
         /\ slept = <<600>>
         /\ Last(trace) = "sleep"
         /\ \/ clock >= requests[1].time + 600
            \/ clock = MaxTime

\* A successful iteration with a notification has slept.
C13_Witness ==
    /\ pc = "while" /\ ~Failed
    /\ Len(sent) > 0
    /\ slept = <<600>>

\* The status notifications of this iteration that were not delivered.
Undelivered ==
    { k \in 1..Len(sent) : k \notin FailureMessages(sent) /\ ~sent[k].delivered }

\* C14: a status notification that is not delivered does not abort the
\* iteration: the for loop goes on with the next record, the failure raises
\* nothing (an iteration fails on its records only), and with the rest of
\* the list well-formed every record is notified, no failure message is sent
\* and the cursor moves to a time not before the fetch, so the next from_date
\* does not reach back to the record.
C14_UndeliveredDoesNotAbort ==
    Undelivered # {} =>
        /\ IsList(homeworks)
        /\ (pc = "for" /\ Last(trace) = "send_message") => i = Len(sent) + 1
        /\ Failed =>
             /\ error.type \in {"KeyError", "AttributeError"}
             /\ Count(trace, "parse_status") = Count(trace, "send_message")
                  + (IF pc = "except" THEN 1 ELSE 0)
             /\ ~WellFormed(homeworks.v[i])
        /\ (\A k \in 1..Len(homeworks.v) : WellFormed(homeworks.v[k])) =>
             /\ ~Failed
             /\ pc \in {"for", "sleep", "while"}
             /\ FailureMessages(sent) = {}
             /\ pc \in {"sleep", "while"} =>
                  /\ Len(sent) = Len(homeworks.v)
                  /\ \A k \in 1..Len(sent) :
                       sent[k].text = ExpectedText(homeworks.v[k])
                  /\ current_timestamp >= requests[1].time
                  /\ \A r \in Responses :
                       get_api_answer(current_timestamp, clock, r)
                           .requests[1].from_date >= requests[1].time

\* The first of two notifications was not delivered, the second was sent,
\* and the iteration ended as a success.
C14_Witness ==
    /\ pc = "while" /\ ~Failed
    /\ Len(sent) = 2
    /\ ~sent[1].delivered
    /\ sent[2].delivered

\* C15: a failed iteration (of the fetch, the validation or the formatting of
\* a record) leaves the cursor as it was when the iteration's fetch was
\* made, and the next fetch is issued with the same from_date.
C15_FailureKeepsCursor ==
    Failed =>
        /\ Len(requests) = 1
        /\ current_timestamp = requests[1].from_date
        /\ pc = "while" =>
             \A r \in Responses :
                 get_api_answer(current_timestamp, clock, r)
                     .requests[1].from_date = requests[1].from_date

\* After a first notification the second record was refused, later than the
\* cursor, and the iteration has slept.
C15_Witness ==
    /\ Failed /\ pc = "while"
    /\ error.type = "KeyError"
    /\ Len(sent) = 2
    /\ requests[1].time > requests[1].from_date

\* The position of the first record of a list that parse_status refuses.
FirstRefused(list) ==
    CHOOSE k \in 1..Len(list) :
        /\ ~WellFormed(list[k])
        /\ \A j \in 1..(k - 1) : WellFormed(list[j])

\* C16: when the k-th record of the validated list is the first one that
\* parse_status refuses, the iteration notifies records 1..k-1 in order,
\* formats no record after the k-th and notifies none from the k-th on,
\* sends exactly one failure message and leaves the cursor where it was.
C16_StopsAtFirstRefused ==
    (IsList(homeworks) /\ \E k \in 1..Len(homeworks.v) : ~WellFormed(homeworks.v[k])) =>
        LET k == FirstRefused(homeworks.v)
        IN  /\ pc \in {"for", "except", "sleep", "while"}
            /\ pc = "for" =>
                 (~Failed /\ i <= k /\ Len(sent) = i - 1)
            /\ pc # "for" =>
                 /\ Failed
                 /\ i = k
                 /\ Count(trace, "parse_status") = k
                 /\ Count(trace, "advance") = 0
                 /\ current_timestamp = requests[1].from_date
            /\ pc = "except" => Len(sent) = k - 1
            /\ pc \in {"sleep", "while"} =>
                 /\ Len(sent) = k
                 /\ FailureMessages(sent) = {k}
                 /\ Includes(sent[k].text, error.text)
            /\ \A j \in 1..Len(sent) :
                 j < k => sent[j].text = ExpectedText(homeworks.v[j])

\* The second record is refused after the first was notified, and the
\* iteration has ended.
C16_Witness ==
    /\ IsList(homeworks) /\ Len(homeworks.v) = 2
    /\ WellFormed(homeworks.v[1])
    /\ IsDict(homeworks.v[2]) /\ ~WellFormed(homeworks.v[2])
    /\ pc = "while"
    /\ Len(sent) = 2

\* C17: the cursor is the startup time when the loop begins and, the clock
\* never going back, it never decreases: it is never below the startup time
\* nor below the from_date of this iteration's fetch, no step lowers it, and
\* so the from_date of a fetch is never below that of an earlier one.
C17_CursorNeverDecreases ==
    /\ [][clock' >= clock]_vars
    /\ [][current_timestamp' >= current_timestamp]_vars
    /\ []((pc = "while" /\ trace = <<>>) => current_timestamp = StartTime)
    /\ [](InLoop =>
            /\ current_timestamp >= StartTime
            /\ current_timestamp <= clock
            /\ requests # <<>> =>
                 /\ requests[1].from_date >= StartTime
                 /\ requests[1].from_date <= current_timestamp)
    /\ [][(pc = "get_api_answer" /\ pc' # pc) =>
            requests'[1].from_date = current_timestamp]_vars

\* A later iteration has fetched with a from_date above the startup time.
C17_Witness ==
    /\ requests # <<>>
    /\ requests[1].from_date > StartTime
    /\ current_timestamp > requests[1].from_date

\* C18: get_api_answer sends the cursor it is given as from_date when the
\* cursor is not zero and the time of the call when it is zero, and never a
\* from_date of zero.
C18_FromDateFallback ==
    pc \in {"returned", "raised"} =>
        /\ Len(requests) = 1
        /\ requests[1].from_date # 0
        /\ current_timestamp # 0 => requests[1].from_date = current_timestamp
        /\ current_timestamp = 0 => requests[1].from_date = clock
        /\ requests[1].from_date # current_timestamp => current_timestamp = 0

\* A call with a zero cursor has sent the time of the call.
C18_Witness ==
    /\ pc = "returned"
    /\ current_timestamp = 0
    /\ requests[1].from_date = clock

====
